---- MODULE Spec2Model ----
(***************************************************************************)
(* Model of daisy.ClientScheduler (src/daisy/client_scheduler.py): the     *)
(* worker-side client of the Daisy scheduler.  Three kinds of threads act: *)
(* the thread that runs the constructor, the tornado event loop (which     *)
(* runs _start / _connect_with_retry / async_recv and the spawned          *)
(* async_send callbacks), and the user threads that call acquire_block()   *)
(* and release_block().  The scheduler at the other end of the stream is   *)
(* the environment.                                                        *)
(***************************************************************************)
EXTENDS Integers, Sequences, FiniteSets, TLC

\* ---------------------------------------------------------------- bounds
NumCallers == 2      \* user threads that may call the client API
MaxMsgs == 2         \* messages the scheduler sends over the stream
MaxCalls == 2        \* API calls (acquire_block / release_block) made in all
MaxEnvLen == 5       \* length of the DAISY_CONTEXT strings tried

\* ------------------------------------------------------ program constants
MaxRetries == 10     \* "if (counter > 10)" in _connect_with_retry

\* ------------------------------------------------------------ input sets
Callers == 1 .. NumCallers
BlockIds == {42, 43}
RetInputs == {0, 1, 2}
\* a string is the sequence of its characters
TaskIds == { << "w", "7" >> }
EnvChars == {"a", ":"}

\* an optional value: a constructor argument that may be None, an environment
\* variable that may be unset
Opt(v) == [given |-> TRUE, val |-> v]
Absent == [given |-> FALSE, val |-> << >>]

\* owners of job_queue_cv's lock
Free == [who |-> "nobody", id |-> 0]
LoopThread == [who |-> "loop", id |-> 0]
CallerThread(c) == [who |-> "caller", id |-> c]

\* ------------------------------------------------------------ data model
\* A work-queue entry: a Block (identified by its block_id) or None.
Block(b) == [isNone |-> FALSE, block_id |-> b]
None == [isNone |-> TRUE, block_id |-> 0]
NoVal == [isNone |-> TRUE, block_id |-> -1]   \* local variable not assigned

IsBlock(v) == ~v.isNone

\* tcp.SchedulerMessageType
NEW_BLOCK == "NEW_BLOCK"
TERMINATE_WORKER == "TERMINATE_WORKER"
WORKER_GET_BLOCK == "WORKER_GET_BLOCK"
WORKER_RET_BLOCK == "WORKER_RET_BLOCK"
WORKER_EXITING == "WORKER_EXITING"
SchedulerMessageType ==
    {NEW_BLOCK, TERMINATE_WORKER, WORKER_GET_BLOCK, WORKER_RET_BLOCK, WORKER_EXITING}

\* tcp.ReturnCode
SUCCESS == "SUCCESS"
ERROR == "ERROR"

\* tcp.SchedulerMessage(type, data=None)
SchedulerMessage(t, d) == [type |-> t, data |-> d]

\* tcp.pack_message / tcp.get_and_unpack_message: a message travels as a frame
pack_message(m) == [frame |-> m]
unpack_message(f) == f.frame

VARIABLES
    args,         \* the arguments sched_addr, sched_port, task_id of __init__
    environ,      \* os.environ['DAISY_CONTEXT']
    sched_addr,   \* self.sched_addr
    sched_port,   \* self.sched_port
    ctor_pc,      \* position of the thread running __init__
    task_id,      \* self.task_id
    connected,    \* self.connected
    error_state,  \* self.error_state
    stream,       \* self.stream: "None", "open" or "closed"
    queue_made,   \* self.job_queue has been assigned
    cv_made,      \* self.job_queue_cv has been assigned
    job_queue,    \* self.job_queue (a deque)
    lock,         \* owner of job_queue_cv's lock
    loop_pc,      \* position of the _start coroutine on the event loop
    counter,      \* local counter of _connect_with_retry
    cur,          \* local block of async_recv
    callbacks,    \* async_send callbacks spawned on the event loop, not yet run
    written,      \* frames written to the stream by async_send
    dropped,      \* number of async_send calls that met StreamClosedError
    inbound,      \* frames sent by the scheduler and not yet read
    nsent,        \* number of messages the scheduler has sent
    pc,           \* position of each user thread
    ret,          \* per user thread: local ret of acquire_block / block held
    users,        \* the user threads that exist in this run
    ncalls,       \* API calls made so far
    \* history
    scheduled,    \* every message handed to send(), in order
    recvd,        \* every message read by async_recv, in order
    appended,     \* every entry appended to job_queue, in order
    popLog,       \* every entry removed by popleft, in order
    retLog,       \* <<caller, value>> for every acquire_block() that returned
    relLog,       \* <<block, ret>> arguments of every release_block() call
    exit_path     \* how async_recv left its loop: "none", "terminate", "closed"

vars == << args, environ, sched_addr, sched_port, ctor_pc, task_id, connected, error_state, stream, queue_made, cv_made,
           job_queue, lock, loop_pc, counter, cur, callbacks, written, dropped,
           inbound, nsent, pc, ret, users, ncalls, scheduled,
           recvd, appended, popLog, retLog, relLog, exit_path >>

bootVars == << args, environ, sched_addr, sched_port >>
ctorVars == << ctor_pc, task_id, bootVars >>
flagVars == << connected, error_state >>
queueVars == << queue_made, cv_made, job_queue, lock, appended, popLog >>
sendVars == << callbacks, scheduled >>
wireVars == << written, dropped >>
peerVars == << inbound, nsent >>
callerVars == << pc, ret, ncalls, retLog, relLog >>

\* --------------------------------------------------------------- helpers
\* send(): ioloop.spawn_callback(self.async_send, pack_message(data))
send(m) ==
    /\ callbacks' = Append(callbacks, pack_message(m))
    /\ scheduled' = Append(scheduled, m)

\* Condition.notify(): wakes one thread waiting on the condition, if any
notify(p) ==
    IF \E w \in Callers : p[w] = "waiting"
    THEN { [p EXCEPT ![w] = "woken"] : w \in { x \in Callers : p[x] = "waiting" } }
    ELSE { p }

\* the object before __init__ has run, whatever it is called with
InitState ==
    /\ ctor_pc = "init"
    /\ sched_addr = << >>
    /\ sched_port = << >>
    /\ task_id = << >>
    /\ connected = FALSE
    /\ error_state = FALSE
    /\ stream = "None"
    /\ queue_made = FALSE
    /\ cv_made = FALSE
    /\ job_queue = << >>
    /\ lock = Free
    /\ loop_pc = "idle"
    /\ counter = 0
    /\ cur = NoVal
    /\ callbacks = << >>
    /\ written = << >>
    /\ dropped = 0
    /\ inbound = << >>
    /\ nsent = 0
    /\ pc = [c \in Callers |-> "idle"]
    /\ ret = [c \in Callers |-> NoVal]
    /\ users \in { 1 .. n : n \in Callers }
    /\ ncalls = 0
    /\ scheduled = << >>
    /\ recvd = << >>
    /\ appended = << >>
    /\ popLog = << >>
    /\ retLog = << >>
    /\ relLog = << >>
    /\ exit_path = "none"

\* ClientScheduler(sched_addr, sched_port, task_id): all three given
Init ==
    /\ InitState
    /\ \E t \in TaskIds :
        args = [sched_addr |-> Opt(<< "h" >>), sched_port |-> Opt(<< "9" >>),
                task_id |-> Opt(t)]
    /\ environ = Absent

\* ------------------------------------------------------------ constructor
\* __init__, lines 67-100: reset the flags, resolve the parameters, schedule
\* _start on the event loop.
RECURSIVE split(_)
\* str.split(':'): the fields between the colons, empty ones included
split(s) ==
    IF s = << >> THEN << << >> >>
    ELSE IF Head(s) = ":" THEN << << >> >> \o split(Tail(s))
    ELSE LET rest == split(Tail(s)) IN
         << << Head(s) >> \o rest[1] >> \o Tail(rest)

\* "if sched_addr is None or sched_port is None or task_id is None"
NeedsContext(a) ==
    ~a.sched_addr.given \/ ~a.sched_port.given \/ ~a.task_id.given

\* (mutant) the first three fields are taken, further ones ignored
Unpacks_FirstThree(context) == Len(context) >= 3

\* "sched_addr, sched_port, task_id = context" does not raise ValueError
Unpacks(context) == Len(context) = 3

\* the constructor raises KeyError or ValueError (lines 74-86)
CtorRaises ==
    /\ NeedsContext(args)
    /\ ~environ.given \/ ~Unpacks(split(environ.val))

CtorInit ==
    /\ ctor_pc = "init"
    /\ connected' = FALSE
    /\ error_state' = FALSE
    /\ stream' = "None"
    /\ IF CtorRaises
       THEN /\ ctor_pc' = "raised"
            /\ UNCHANGED << sched_addr, sched_port, task_id, loop_pc >>
       ELSE /\ LET context == split(environ.val) IN
                IF NeedsContext(args)
                THEN /\ sched_addr' = context[1]
                     /\ sched_port' = context[2]
                     /\ task_id' = context[3]
                ELSE /\ sched_addr' = args.sched_addr.val
                     /\ sched_port' = args.sched_port.val
                     /\ task_id' = args.task_id.val
            /\ loop_pc' = "connect"
            /\ ctor_pc' = "poll"
    /\ UNCHANGED << args, environ, queueVars, counter, cur, sendVars, wireVars,
                    peerVars, callerVars, users, recvd, exit_path >>

\* "while not self.connected:" (line 103)
CtorPoll ==
    /\ ctor_pc = "poll"
    /\ ctor_pc' = IF connected THEN "returned" ELSE "sleep"
    /\ UNCHANGED << task_id, bootVars, flagVars, stream, queueVars, loop_pc,
                    counter, cur, sendVars, wireVars, peerVars, callerVars, users,
                    recvd, exit_path >>

\* "time.sleep(.1); if self.error_state: sys.exit(1)" (lines 104-107)
CtorSleep ==
    /\ ctor_pc = "sleep"
    /\ ctor_pc' = IF error_state THEN "exited" ELSE "poll"
    /\ UNCHANGED << task_id, bootVars, flagVars, stream, queueVars, loop_pc,
                    counter, cur, sendVars, wireVars, peerVars, callerVars, users,
                    recvd, exit_path >>

Ctor == CtorInit \/ CtorPoll \/ CtorSleep

\* ------------------------------------------------- _connect_with_retry
\* (mutant) off by one: gives up when the counter reaches the bound
RetriesExhausted_AtBound(n) == n >= MaxRetries

\* "if (counter > 10)": the retries are used up
RetriesExhausted(n) == n > MaxRetries

\* TCPClient().connect(...) succeeded: "return stream" (the local counter is
\* gone with the call), "self.stream = ..."
ConnectOk ==
    /\ loop_pc = "connect"
    /\ stream' = "open"
    /\ counter' = 0
    /\ loop_pc' = "mkqueue"
    /\ UNCHANGED << ctorVars, flagVars, queueVars, cur, sendVars,
                    wireVars, peerVars, callerVars, users, recvd, exit_path >>

\* TCPClient().connect(...) raised: count, then give up or sleep
ConnectFail ==
    /\ loop_pc = "connect"
    /\ counter' = counter + 1
    /\ loop_pc' = IF RetriesExhausted(counter') THEN "ret_none" ELSE "sleep"
    /\ UNCHANGED << ctorVars, flagVars, stream, queueVars, cur, sendVars,
                    wireVars, peerVars, callerVars, users, recvd, exit_path >>

\* "await asyncio.sleep(1)", then the next round of "while True"
ConnectSleep ==
    /\ loop_pc = "sleep"
    /\ loop_pc' = "connect"
    /\ UNCHANGED << ctorVars, flagVars, stream, queueVars, counter, cur,
                    sendVars, wireVars, peerVars, callerVars, users, recvd,
                    exit_path >>

\* ------------------------------------------------------------------ _start
\* (mutant) the failed connect returns without setting error_state
StartFailed_NoFlag ==
    /\ loop_pc = "ret_none"
    /\ stream' = "None"
    /\ loop_pc' = "failed"
    /\ UNCHANGED << ctorVars, flagVars, queueVars, counter, cur, sendVars,
                    wireVars, peerVars, callerVars, users, recvd, exit_path >>

\* "if self.stream is None: self.error_state = True; return"
StartFailed ==
    /\ loop_pc = "ret_none"
    /\ stream' = "None"
    /\ error_state' = TRUE
    /\ loop_pc' = "failed"
    /\ UNCHANGED << ctorVars, connected, queueVars, counter, cur, sendVars,
                    wireVars, peerVars, callerVars, users, recvd, exit_path >>

\* (mutant) connected is set with the deque, before the Condition exists
StartMakeQueue_ConnectedFirst ==
    /\ loop_pc = "mkqueue"
    /\ job_queue' = << >>
    /\ queue_made' = TRUE
    /\ connected' = TRUE
    /\ loop_pc' = "mkcv"
    /\ UNCHANGED << ctorVars, error_state, stream, cv_made, lock, appended,
                    popLog, counter, cur, sendVars, wireVars, peerVars,
                    callerVars, users, recvd, exit_path >>

\* "self.job_queue = deque()"
StartMakeQueue ==
    /\ loop_pc = "mkqueue"
    /\ job_queue' = << >>
    /\ queue_made' = TRUE
    /\ loop_pc' = "mkcv"
    /\ UNCHANGED << ctorVars, flagVars, stream, cv_made, lock, appended, popLog,
                    counter, cur, sendVars, wireVars, peerVars, callerVars, users,
                    recvd, exit_path >>

\* "self.job_queue_cv = threading.Condition()"
StartMakeCv ==
    /\ loop_pc = "mkcv"
    /\ cv_made' = TRUE
    /\ lock' = Free
    /\ loop_pc' = "setconn"
    /\ UNCHANGED << ctorVars, flagVars, stream, queue_made, job_queue, appended,
                    popLog, counter, cur, sendVars, wireVars, peerVars,
                    callerVars, users, recvd, exit_path >>

\* "self.connected = True", then "await self.async_recv()"
StartSetConnected ==
    /\ loop_pc = "setconn"
    /\ connected' = TRUE
    /\ loop_pc' = "recv"
    /\ UNCHANGED << ctorVars, error_state, stream, queueVars, counter, cur,
                    sendVars, wireVars, peerVars, callerVars, users, recvd,
                    exit_path >>

Start == StartFailed \/ StartMakeQueue \/ StartMakeCv \/ StartSetConnected
Connect == ConnectOk \/ ConnectFail \/ ConnectSleep

\* -------------------------------------------------------------- async_recv
\* (mutant) TERMINATE_WORKER breaks out of the loop without sending anything
RecvMsg_NoExiting ==
    /\ loop_pc = "recv"
    /\ inbound # << >>
    /\ LET msg == unpack_message(Head(inbound)) IN
        /\ inbound' = Tail(inbound)
        /\ recvd' = Append(recvd, msg)
        /\ IF msg.type = NEW_BLOCK
           THEN /\ cur' = msg.data
                /\ loop_pc' = "nb_lock"
                /\ UNCHANGED << sendVars, exit_path >>
           ELSE IF msg.type = TERMINATE_WORKER
           THEN /\ exit_path' = "terminate"
                /\ loop_pc' = "stop_lock"
                /\ UNCHANGED << cur, sendVars >>
           ELSE /\ loop_pc' = "recv"
                /\ UNCHANGED << cur, sendVars, exit_path >>
    /\ UNCHANGED << ctorVars, flagVars, stream, queueVars, counter, wireVars,
                    nsent, callerVars, users >>

\* (mutant) a message of any other type ends the loop like TERMINATE_WORKER
RecvMsg_UnknownStops ==
    /\ loop_pc = "recv"
    /\ inbound # << >>
    /\ LET msg == unpack_message(Head(inbound)) IN
        /\ inbound' = Tail(inbound)
        /\ recvd' = Append(recvd, msg)
        /\ IF msg.type = NEW_BLOCK
           THEN /\ cur' = msg.data
                /\ loop_pc' = "nb_lock"
                /\ UNCHANGED << sendVars, exit_path >>
           ELSE /\ send(SchedulerMessage(WORKER_EXITING, None))
                /\ exit_path' = "terminate"
                /\ loop_pc' = "stop_lock"
                /\ UNCHANGED cur
    /\ UNCHANGED << ctorVars, flagVars, stream, queueVars, counter, wireVars,
                    nsent, callerVars, users >>

\* "msg = await get_and_unpack_message(self.stream)" returned a message, and
\* the dispatch on msg.type up to the first wait for the lock
RecvMsg ==
    /\ loop_pc = "recv"
    /\ inbound # << >>
    /\ LET msg == unpack_message(Head(inbound)) IN
        /\ inbound' = Tail(inbound)
        /\ recvd' = Append(recvd, msg)
        /\ IF msg.type = NEW_BLOCK
           THEN /\ cur' = msg.data
                /\ loop_pc' = "nb_lock"
                /\ UNCHANGED << sendVars, exit_path >>
           ELSE IF msg.type = TERMINATE_WORKER
           THEN /\ send(SchedulerMessage(WORKER_EXITING, None))
                /\ exit_path' = "terminate"
                /\ loop_pc' = "stop_lock"
                /\ UNCHANGED cur
           ELSE /\ loop_pc' = "recv"
                /\ UNCHANGED << cur, sendVars, exit_path >>
    /\ UNCHANGED << ctorVars, flagVars, stream, queueVars, counter, wireVars,
                    nsent, callerVars, users >>

\* (mutant) a closed stream sends the coroutine back to connecting
RecvClosed_Reconnect ==
    /\ loop_pc = "recv"
    /\ stream = "closed"
    /\ exit_path' = "closed"
    /\ loop_pc' = "connect"
    /\ UNCHANGED << ctorVars, flagVars, stream, queueVars, counter, cur, sendVars,
                    wireVars, peerVars, callerVars, users, recvd >>

\* (mutant) StreamClosedError ends the coroutine without the final append
RecvClosed_Return ==
    /\ loop_pc = "recv"
    /\ stream = "closed"
    /\ exit_path' = "closed"
    /\ loop_pc' = "done"
    /\ UNCHANGED << ctorVars, flagVars, stream, queueVars, counter, cur, sendVars,
                    wireVars, peerVars, callerVars, users, recvd >>

\* (mutant) a stream closed in mid-session is flagged like a failed connect
RecvClosed_SetsError ==
    /\ loop_pc = "recv"
    /\ stream = "closed"
    /\ exit_path' = "closed"
    /\ error_state' = TRUE
    /\ loop_pc' = "stop_lock"
    /\ UNCHANGED << ctorVars, connected, stream, queueVars, counter, cur, sendVars,
                    wireVars, peerVars, callerVars, users, recvd >>

\* the read raised StreamClosedError: log and break
RecvClosed ==
    /\ loop_pc = "recv"
    /\ stream = "closed"
    /\ exit_path' = "closed"
    /\ loop_pc' = "stop_lock"
    /\ UNCHANGED << ctorVars, flagVars, stream, queueVars, counter, cur, sendVars,
                    wireVars, peerVars, callerVars, users, recvd >>

\* "with self.job_queue_cv:" entered by the event-loop thread (lines 156, 170)
RecvLock ==
    /\ loop_pc \in {"nb_lock", "stop_lock"}
    /\ lock = Free
    /\ lock' = LoopThread
    /\ loop_pc' = IF loop_pc = "nb_lock" THEN "nb_append" ELSE "stop_append"
    /\ UNCHANGED << ctorVars, flagVars, stream, queue_made, cv_made, job_queue,
                    appended, popLog, counter, cur, sendVars, wireVars, peerVars,
                    callerVars, users, recvd, exit_path >>

\* (mutant) the Block is appended without notify()
RecvAppendBlock_NoNotify ==
    /\ loop_pc = "nb_append"
    /\ job_queue' = Append(job_queue, cur)
    /\ appended' = Append(appended, cur)
    /\ lock' = Free
    /\ loop_pc' = "recv"
    /\ UNCHANGED << ctorVars, flagVars, stream, queue_made, cv_made, popLog,
                    counter, cur, sendVars, wireVars, peerVars, callerVars,
                    users, recvd, exit_path >>

\* "self.job_queue.append(block); self.job_queue_cv.notify()", lock released
RecvAppendBlock ==
    /\ loop_pc = "nb_append"
    /\ job_queue' = Append(job_queue, cur)
    /\ appended' = Append(appended, cur)
    /\ pc' \in notify(pc)
    /\ lock' = Free
    /\ loop_pc' = "recv"
    /\ UNCHANGED << ctorVars, flagVars, stream, queue_made, cv_made, popLog,
                    counter, cur, sendVars, wireVars, peerVars, ret, ncalls,
                    retLog, relLog, users, recvd, exit_path >>

\* (mutant) the loop goes on reading after the final append
RecvAppendNone_KeepReading ==
    /\ loop_pc = "stop_append"
    /\ job_queue' = Append(job_queue, None)
    /\ appended' = Append(appended, None)
    /\ pc' \in notify(pc)
    /\ lock' = Free
    /\ loop_pc' = "recv"
    /\ UNCHANGED << ctorVars, flagVars, stream, queue_made, cv_made, popLog,
                    counter, cur, sendVars, wireVars, peerVars, ret, ncalls,
                    retLog, relLog, users, recvd, exit_path >>

\* (mutant) the sentinel is appended twice
RecvAppendNone_Twice ==
    /\ loop_pc = "stop_append"
    /\ job_queue' = job_queue \o << None, None >>
    /\ appended' = appended \o << None, None >>
    /\ pc' \in notify(pc)
    /\ lock' = Free
    /\ loop_pc' = "done"
    /\ UNCHANGED << ctorVars, flagVars, stream, queue_made, cv_made, popLog,
                    counter, cur, sendVars, wireVars, peerVars, ret, ncalls,
                    retLog, relLog, users, recvd, exit_path >>

\* "self.job_queue.append(None); self.job_queue_cv.notify()", lock released;
\* async_recv and _start return
RecvAppendNone ==
    /\ loop_pc = "stop_append"
    /\ job_queue' = Append(job_queue, None)
    /\ appended' = Append(appended, None)
    /\ pc' \in notify(pc)
    /\ lock' = Free
    /\ loop_pc' = "done"
    /\ UNCHANGED << ctorVars, flagVars, stream, queue_made, cv_made, popLog,
                    counter, cur, sendVars, wireVars, peerVars, ret, ncalls,
                    retLog, relLog, users, recvd, exit_path >>

Recv == RecvMsg \/ RecvClosed \/ RecvLock \/ RecvAppendBlock \/ RecvAppendNone

\* -------------------------------------------------------------- async_send
\* The event loop runs a spawned callback only while _start is suspended in
\* an await or has returned.
LoopSuspended == loop_pc \in {"connect", "sleep", "recv", "done", "failed"}

\* (mutant) a write on a closed stream is flagged in error_state
AsyncSend_Escalate ==
    /\ LoopSuspended
    /\ callbacks # << >>
    /\ callbacks' = Tail(callbacks)
    /\ IF stream = "open"
       THEN /\ written' = Append(written, Head(callbacks))
            /\ UNCHANGED << dropped, error_state >>
       ELSE /\ dropped' = dropped + 1
            /\ error_state' = TRUE
            /\ UNCHANGED written
    /\ UNCHANGED << ctorVars, connected, stream, queueVars, loop_pc, counter, cur,
                    scheduled, peerVars, callerVars, users, recvd, exit_path >>

\* "await self.stream.write(data)", StreamClosedError logged and swallowed
AsyncSend ==
    /\ LoopSuspended
    /\ callbacks # << >>
    /\ callbacks' = Tail(callbacks)
    /\ IF stream = "open"
       THEN written' = Append(written, Head(callbacks)) /\ UNCHANGED dropped
       ELSE dropped' = dropped + 1 /\ UNCHANGED written
    /\ UNCHANGED << ctorVars, flagVars, stream, queueVars, loop_pc, counter, cur,
                    scheduled, peerVars, callerVars, users, recvd, exit_path >>

EventLoop == Connect \/ Start \/ Recv \/ AsyncSend

\* ---------------------------------------------------------- the scheduler
\* what the scheduler may write: NEW_BLOCK(data=Block) or a message without data
SchedMessages ==
    { SchedulerMessage(NEW_BLOCK, Block(b)) : b \in BlockIds }
        \cup { SchedulerMessage(t, None) : t \in {TERMINATE_WORKER, WORKER_EXITING} }

\* the scheduler writes one message to the stream
SchedSend ==
    /\ stream = "open"
    /\ nsent < MaxMsgs
    /\ \E m \in SchedMessages : inbound' = Append(inbound, pack_message(m))
    /\ nsent' = nsent + 1
    /\ UNCHANGED << ctorVars, flagVars, stream, queueVars, loop_pc, counter, cur,
                    sendVars, wireVars, callerVars, users, recvd, exit_path >>

\* the peer disconnects, or the connection is lost
StreamClose ==
    /\ stream = "open"
    /\ stream' = "closed"
    /\ UNCHANGED << ctorVars, flagVars, queueVars, loop_pc, counter, cur,
                    sendVars, wireVars, peerVars, callerVars, users, recvd,
                    exit_path >>

Peer == SchedSend \/ StreamClose

\* ----------------------------------------------------------- acquire_block
\* "self.send(SchedulerMessage(WORKER_GET_BLOCK, data=self.task_id))"
AcquireSend(c) ==
    /\ ctor_pc = "returned"
    /\ pc[c] = "idle"
    /\ ncalls < MaxCalls
    /\ ncalls' = ncalls + 1
    /\ send(SchedulerMessage(WORKER_GET_BLOCK, task_id))
    /\ pc' = [pc EXCEPT ![c] = "acq_lock"]
    /\ UNCHANGED << ctorVars, flagVars, stream, queueVars, loop_pc, counter, cur,
                    wireVars, peerVars, ret, retLog, relLog, users, recvd,
                    exit_path >>

\* (mutant) the with block is entered whether or not the lock is free
AcquireLock_Barging(c) ==
    /\ pc[c] \in {"acq_lock", "woken"}
    /\ lock' = CallerThread(c)
    /\ pc' = [pc EXCEPT ![c] = "check"]
    /\ UNCHANGED << ctorVars, flagVars, stream, queue_made, cv_made, job_queue,
                    appended, popLog, loop_pc, counter, cur, sendVars, wireVars,
                    peerVars, ret, ncalls, retLog, relLog, users, recvd, exit_path >>

\* "with self.job_queue_cv:" entered, or the lock taken again on leaving wait()
AcquireLock(c) ==
    /\ pc[c] \in {"acq_lock", "woken"}
    /\ lock = Free
    /\ lock' = CallerThread(c)
    /\ pc' = [pc EXCEPT ![c] = "check"]
    /\ UNCHANGED << ctorVars, flagVars, stream, queue_made, cv_made, job_queue,
                    appended, popLog, loop_pc, counter, cur, sendVars, wireVars,
                    peerVars, ret, ncalls, retLog, relLog, users, recvd, exit_path >>

\* (mutant) deque.pop(): the newest entry is taken
popleft_Right(q) == << q[Len(q)], SubSeq(q, 1, Len(q) - 1) >>

\* (mutant) the head is read and left in the deque
popleft_Peek(q) == << Head(q), q >>

\* deque.popleft(): the entry removed and what is left
popleft(q) == << Head(q), Tail(q) >>

\* (mutant) None is handed out but left at the head of the deque
AcquireCheck_KeepSentinel(c) ==
    /\ pc[c] = "check"
    /\ IF Len(job_queue) = 0
       THEN /\ lock' = Free
            /\ pc' = [pc EXCEPT ![c] = "waiting"]
            /\ UNCHANGED << job_queue, popLog, ret >>
       ELSE /\ ret' = [ret EXCEPT ![c] = Head(job_queue)]
            /\ job_queue' = IF Head(job_queue) = None THEN job_queue
                                                      ELSE Tail(job_queue)
            /\ popLog' = Append(popLog, Head(job_queue))
            /\ pc' = [pc EXCEPT ![c] = "popped"]
            /\ UNCHANGED lock
    /\ UNCHANGED << ctorVars, flagVars, stream, queue_made, cv_made, appended,
                    loop_pc, counter, cur, sendVars, wireVars, peerVars, ncalls,
                    retLog, relLog, users, recvd, exit_path >>

\* (mutant) the request is sent again each time the queue is found empty
AcquireCheck_Resend(c) ==
    /\ pc[c] = "check"
    /\ IF Len(job_queue) = 0
       THEN /\ lock' = Free
            /\ pc' = [pc EXCEPT ![c] = "waiting"]
            /\ send(SchedulerMessage(WORKER_GET_BLOCK, task_id))
            /\ UNCHANGED << job_queue, popLog, ret >>
       ELSE /\ ret' = [ret EXCEPT ![c] = Head(job_queue)]
            /\ job_queue' = Tail(job_queue)
            /\ popLog' = Append(popLog, Head(job_queue))
            /\ pc' = [pc EXCEPT ![c] = "popped"]
            /\ UNCHANGED << lock, sendVars >>
    /\ UNCHANGED << ctorVars, flagVars, stream, queue_made, cv_made, appended,
                    loop_pc, counter, cur, wireVars, peerVars, ncalls,
                    retLog, relLog, users, recvd, exit_path >>

\* (mutant) the caller sleeps on an empty queue with the lock still held
AcquireCheck_WaitHoldingLock(c) ==
    /\ pc[c] = "check"
    /\ IF Len(job_queue) = 0
       THEN /\ pc' = [pc EXCEPT ![c] = "waiting"]
            /\ UNCHANGED << lock, job_queue, popLog, ret >>
       ELSE /\ ret' = [ret EXCEPT ![c] = Head(job_queue)]
            /\ job_queue' = Tail(job_queue)
            /\ popLog' = Append(popLog, Head(job_queue))
            /\ pc' = [pc EXCEPT ![c] = "popped"]
            /\ UNCHANGED lock
    /\ UNCHANGED << ctorVars, flagVars, stream, queue_made, cv_made, appended,
                    loop_pc, counter, cur, sendVars, wireVars, peerVars, ncalls,
                    retLog, relLog, users, recvd, exit_path >>

\* "while len(self.job_queue) == 0: self.job_queue_cv.wait()" and
\* "ret = self.job_queue.popleft()"
AcquireCheck(c) ==
    /\ pc[c] = "check"
    /\ IF Len(job_queue) = 0
       THEN /\ lock' = Free
            /\ pc' = [pc EXCEPT ![c] = "waiting"]
            /\ UNCHANGED << job_queue, popLog, ret >>
       ELSE /\ ret' = [ret EXCEPT ![c] = popleft(job_queue)[1]]
            /\ job_queue' = popleft(job_queue)[2]
            /\ popLog' = Append(popLog, popleft(job_queue)[1])
            /\ pc' = [pc EXCEPT ![c] = "popped"]
            /\ UNCHANGED lock
    /\ UNCHANGED << ctorVars, flagVars, stream, queue_made, cv_made, appended,
                    loop_pc, counter, cur, sendVars, wireVars, peerVars, ncalls,
                    retLog, relLog, users, recvd, exit_path >>

\* "return ret": the with block is left and the lock released
AcquireReturn(c) ==
    /\ pc[c] = "popped"
    /\ lock' = Free
    /\ retLog' = Append(retLog, << c, ret[c] >>)
    /\ pc' = [pc EXCEPT ![c] = "idle"]
    /\ UNCHANGED << ctorVars, flagVars, stream, queue_made, cv_made, job_queue,
                    appended, popLog, loop_pc, counter, cur, sendVars, wireVars,
                    peerVars, ret, ncalls, relLog, users, recvd, exit_path >>

\* ----------------------------------------------------------- release_block
\* (mutant) a value other than 0 and 1 is reported as an error
MapReturnCode_Strict(r) ==
    IF r = 0 THEN SUCCESS
    ELSE ERROR

\* the mapping of the user function's return value to a ReturnCode
MapReturnCode(r) ==
    IF r = 0 THEN SUCCESS
    ELSE IF r = 1 THEN ERROR
    ELSE SUCCESS

\* release_block(block, ret) for the block the caller holds
ReleaseBlock(c) ==
    /\ ctor_pc = "returned"
    /\ pc[c] = "idle"
    /\ IsBlock(ret[c])
    /\ ncalls < MaxCalls
    /\ ncalls' = ncalls + 1
    /\ \E r \in RetInputs :
        /\ send(SchedulerMessage(WORKER_RET_BLOCK,
                    << << task_id, ret[c].block_id >>, MapReturnCode(r) >>))
        /\ relLog' = Append(relLog, [block |-> ret[c], ret |-> r])
    /\ ret' = [ret EXCEPT ![c] = NoVal]
    /\ UNCHANGED << ctorVars, flagVars, stream, queueVars, loop_pc, counter, cur,
                    wireVars, peerVars, pc, retLog, users, recvd, exit_path >>

Caller(c) ==
    \/ AcquireSend(c)
    \/ AcquireLock(c)
    \/ AcquireCheck(c)
    \/ AcquireReturn(c)
    \/ ReleaseBlock(c)

\* ------------------------------------------------------------------- spec
Next ==
    \/ Ctor
    \/ EventLoop
    \/ Peer
    \/ \E c \in users : Caller(c)

Spec == Init /\ [][Next]_vars

\* The scheduling the program relies on: the constructor thread and the event
\* loop keep running, every connect attempt finishes, and a user thread inside
\* acquire_block() is scheduled whenever it can take a step.
Fairness ==
    /\ WF_vars(Ctor)
    /\ WF_vars(EventLoop)
    /\ \A c \in Callers :
        WF_vars(AcquireLock(c) \/ AcquireCheck(c) \/ AcquireReturn(c))

FairSpec == Spec /\ Fairness

\* One user thread and a peer that may write a message of any type.
WideSchedMessages ==
    SchedMessages
        \cup { SchedulerMessage(WORKER_GET_BLOCK, t) : t \in TaskIds }
        \cup { SchedulerMessage(WORKER_RET_BLOCK, << << t, b >>, SUCCESS >>) :
                    t \in TaskIds, b \in BlockIds }

\* the peer writes one message of any type to the stream
SchedSendAny ==
    /\ stream = "open"
    /\ nsent < MaxMsgs
    /\ \E m \in WideSchedMessages : inbound' = Append(inbound, pack_message(m))
    /\ nsent' = nsent + 1
    /\ UNCHANGED << ctorVars, flagVars, stream, queueVars, loop_pc, counter, cur,
                    sendVars, wireVars, callerVars, users, recvd, exit_path >>

\* the object is used from a single thread
WideInit == Init /\ users = {1}

WideNext ==
    \/ Ctor
    \/ EventLoop
    \/ SchedSendAny
    \/ StreamClose
    \/ \E c \in users : Caller(c)

WideSpec == WideInit /\ [][WideNext]_vars

\* The constructor called with any arguments in any environment, followed
\* through the connect sequence.
EnvStrings == UNION { [1 .. n -> EnvChars] : n \in 0 .. MaxEnvLen }

BootInit ==
    /\ InitState
    /\ args \in [sched_addr : {Absent, Opt(<< "h" >>)},
                 sched_port : {Absent, Opt(<< "9" >>)},
                 task_id : {Absent} \cup { Opt(t) : t \in TaskIds }]
    /\ environ \in {Absent} \cup { Opt(e) : e \in EnvStrings }

BootNext == Ctor \/ Connect \/ Start

BootSpec == BootInit /\ [][BootNext]_vars

\* ------------------------------------------------------- derived notions
IsNone(v) == v = None
IsNewBlock(m) == m.type = NEW_BLOCK
IsRetBlock(m) == m.type = WORKER_RET_BLOCK
IsExiting(m) == m.type = WORKER_EXITING

Count(seq, Test(_)) == Cardinality({ i \in DOMAIN seq : Test(seq[i]) })
IsPrefix(a, b) == Len(a) <= Len(b) /\ \A i \in DOMAIN a : a[i] = b[i]

\* the Blocks of the NEW_BLOCK messages read so far, in receipt order
ReceivedBlocks ==
    LET nb == SelectSeq(recvd, IsNewBlock) IN [i \in DOMAIN nb |-> nb[i].data]

\* the values returned by acquire_block(), in the order the calls returned
ReturnedValues == [i \in DOMAIN retLog |-> retLog[i][2]]
ReturnedBlocks == SelectSeq(ReturnedValues, IsBlock)

\* the entries a caller has taken with popleft() and not returned yet
Held(v) == Cardinality({ c \in Callers : pc[c] = "popped" /\ ret[c] = v })

QueueEntries == { Block(b) : b \in BlockIds } \cup { None }

\* ----------------------------------------------------------------- claims
\* C1: once async_recv has left its loop and finished, exactly one None has
\* been appended to job_queue, on the TERMINATE_WORKER path and on the
\* StreamClosedError path alike; never two, and none while the loop still runs.
C1_ExactlyOneSentinel ==
    /\ Count(appended, IsNone) <= 1
    /\ loop_pc = "done" => (exit_path # "none" /\ Count(appended, IsNone) = 1)
    /\ loop_pc # "done" => Count(appended, IsNone) = 0

C1_Witness ==
    /\ loop_pc = "done"
    /\ exit_path = "closed"
    /\ Len(appended) = 2
    /\ Count(appended, IsNone) = 1

\* C2: job_queue holds at most one None, and only as its last entry; nothing
\* is ever appended after None, whatever the scheduler still sends.
C2_SentinelLast ==
    /\ Count(job_queue, IsNone) <= 1
    /\ \A i \in DOMAIN job_queue : IsNone(job_queue[i]) => i = Len(job_queue)
    /\ \A i \in DOMAIN appended : IsNone(appended[i]) => i = Len(appended)

C2_Witness ==
    /\ Len(job_queue) = 2
    /\ IsBlock(job_queue[1])
    /\ IsNone(job_queue[2])
    /\ inbound # << >>

\* C3: with a single user thread, the Blocks returned by successive
\* acquire_block() calls are the Blocks of the NEW_BLOCK messages in the order
\* async_recv read them.
C3_FifoSingleConsumer ==
    Cardinality(users) = 1 => IsPrefix(ReturnedBlocks, ReceivedBlocks)

C3_Witness ==
    /\ Cardinality(users) = 1
    /\ Len(ReturnedBlocks) = 2
    /\ ReturnedBlocks[1] # ReturnedBlocks[2]

\* C4: nothing is lost and nothing is handed out twice, for any number of user
\* threads: what was appended is what was popped followed by what is still
\* queued, and every popped entry is with exactly one acquire_block() call,
\* either about to return it or having returned it.
C4_NoLossNoDuplication ==
    /\ appended = popLog \o job_queue
    /\ \A v \in QueueEntries :
        Count(popLog, LAMBDA x : x = v)
            = Held(v) + Count(ReturnedValues, LAMBDA x : x = v)

C4_Witness ==
    /\ Len(retLog) = 2
    /\ retLog[1][1] # retLog[2][1]
    /\ IsBlock(retLog[1][2])
    /\ IsBlock(retLog[2][2])

\* C5: a user thread that calls acquire_block() again after one of its calls
\* returned None does not wait forever: the call returns.
C5_SecondAcquireReturns ==
    \A c \in Callers :
        ((\E i \in DOMAIN retLog : retLog[i] = << c, None >>) /\ pc[c] # "idle")
            ~> (pc[c] = "idle")

\* C5 (as amended): a user thread that calls acquire_block() again after one
\* of its calls returned None never gets anything: once None has been popped
\* the queue is empty for good, the receive loop has ended, and the thread's
\* later call neither pops nor returns.
C5_SecondAcquireBlocks ==
    /\ (\E i \in DOMAIN popLog : IsNone(popLog[i]))
            => (job_queue = << >> /\ loop_pc = "done")
    /\ \A c \in Callers : \A i \in DOMAIN retLog :
            retLog[i] = << c, None >>
                => (pc[c] # "popped" /\ \A j \in DOMAIN retLog : j > i => retLog[j][1] # c)

C5_Witness ==
    \E c \in Callers :
        /\ \E i \in DOMAIN retLog : retLog[i] = << c, None >>
        /\ pc[c] = "waiting"
        /\ lock = Free

\* C6: on TERMINATE_WORKER exactly one WORKER_EXITING is scheduled, before None
\* is enqueued, and none on the other path; the shutdown discards nothing: the
\* queue has received every Block read before it, in order, followed by None,
\* and popleft() hands them out in that order, the Blocks first, None after.
C6_GracefulShutdown ==
    /\ exit_path = "terminate" => Count(scheduled, IsExiting) = 1
    /\ exit_path # "terminate" => Count(scheduled, IsExiting) = 0
    /\ loop_pc = "done" => appended = ReceivedBlocks \o << None >>
    /\ loop_pc \in {"stop_lock", "stop_append"} => appended = ReceivedBlocks
    /\ IsPrefix(popLog, ReceivedBlocks \o << None >>)

C6_Witness ==
    /\ exit_path = "terminate"
    /\ recvd[Len(recvd)].type = TERMINATE_WORKER
    /\ Len(retLog) = 2
    /\ << retLog[1][2] >> = ReceivedBlocks
    /\ retLog[2][2] = None

\* C7: every release_block(b, r) schedules exactly one WORKER_RET_BLOCK whose
\* data is ((task_id, b.block_id), code), code being SUCCESS for r = 0, ERROR
\* for r = 1 and SUCCESS for any other r.
C7_ReleaseMessage ==
    LET rets == SelectSeq(scheduled, IsRetBlock) IN
    /\ Len(rets) = Len(relLog)
    /\ \A i \in DOMAIN relLog :
        /\ rets[i].data[1] = << task_id, relLog[i].block.block_id >>
        /\ relLog[i].ret = 0 => rets[i].data[2] = SUCCESS
        /\ relLog[i].ret = 1 => rets[i].data[2] = ERROR
        /\ relLog[i].ret \notin {0, 1} => rets[i].data[2] = SUCCESS

C7_Witness ==
    /\ Len(relLog) = 1
    /\ relLog[1].ret = 2
    /\ Count(scheduled, IsRetBlock) = 1

\* C8: _connect_with_retry never counts more than MaxRetries + 1 failed
\* attempts: an attempt or a sleep is only made with at most MaxRetries
\* failures counted, None is returned exactly when the count has passed
\* MaxRetries, and no attempt follows a success.
C8_BoundedRetry ==
    /\ counter <= MaxRetries + 1
    /\ loop_pc = "connect" => counter <= MaxRetries
    /\ loop_pc = "sleep" => (1 <= counter /\ counter <= MaxRetries)
    /\ loop_pc \in {"ret_none", "failed"} => counter = MaxRetries + 1
    /\ loop_pc \in {"connect", "sleep", "ret_none", "failed"} => stream = "None"

C8_Witness ==
    /\ loop_pc = "failed"
    /\ counter = MaxRetries + 1
    /\ stream = "None"

\* C9: connected and error_state are never both true: the flag the connect
\* set stays the only one, also after TERMINATE_WORKER or a closed stream.
C9_FlagsExclusive ==
    /\ ~(connected /\ error_state)
    /\ connected => stream # "None"
    /\ error_state => loop_pc = "failed"

C9_Witness ==
    /\ connected
    /\ ~error_state
    /\ stream = "closed"
    /\ loop_pc = "done"

\* C10: the constructor returns only with connected true, exits the process
\* only with error_state true and then never returns, and under fair
\* scheduling one of the two eventually happens.
C10_InitTerminates ==
    /\ [](ctor_pc = "returned" => connected)
    /\ [](ctor_pc = "exited" => (error_state /\ ~connected))
    /\ [][ctor_pc = "exited" => ctor_pc' = "exited"]_vars
    /\ <>(ctor_pc \in {"returned", "exited"})

C10_Witness ==
    /\ ctor_pc = "exited"
    /\ error_state

\* C11: a stream closed after the connect succeeded ends the receive loop for
\* good: from then on the coroutine only takes the lock, appends None and
\* returns; it reads nothing more from the stream (also not a message that is
\* still unread) and _connect_with_retry is not run again.
C11_ClosureIsTerminal ==
    /\ [](exit_path = "closed"
            => (loop_pc \in {"stop_lock", "stop_append", "done"} /\ stream = "closed"))
    /\ [](loop_pc = "done" => Count(appended, IsNone) = 1)
    /\ [][exit_path = "closed"
            => /\ exit_path' = "closed"
               /\ recvd' = recvd
               /\ Len(inbound') >= Len(inbound)
               /\ counter' = counter
               /\ stream' = stream]_vars

C11_Witness ==
    /\ exit_path = "closed"
    /\ loop_pc = "done"
    /\ job_queue # << >>
    /\ inbound # << >>

\* C12: every acquire_block() call schedules exactly one WORKER_GET_BLOCK
\* carrying task_id, before it takes the lock, and never another while it
\* waits; it removes exactly one entry, the head of the queue at that moment;
\* a waiting call is only woken by an append, so with nothing ever appended
\* it neither returns nor times out.
InCall(c) == pc[c] # "idle"
IsGetBlock(m) == m.type = WORKER_GET_BLOCK

C12_OneRequestOnePop ==
    /\ [](Count(scheduled, IsGetBlock)
            = Len(retLog) + Cardinality({ c \in Callers : InCall(c) }))
    /\ [](\A i \in DOMAIN scheduled :
            IsGetBlock(scheduled[i]) => scheduled[i].data = task_id)
    /\ [](Len(popLog) = Len(retLog) + Cardinality({ c \in Callers : pc[c] = "popped" }))
    /\ [](appended = << >> => (retLog = << >> /\ \A c \in Callers : pc[c] # "popped"))
    /\ [][(Count(scheduled', IsGetBlock) # Count(scheduled, IsGetBlock))
            => \E c \in Callers : pc[c] = "idle" /\ pc'[c] = "acq_lock"]_vars
    /\ [][\A c \in Callers :
            /\ (pc[c] = "waiting" /\ pc'[c] # "waiting")
                  => (pc'[c] = "woken" /\ Len(appended') = Len(appended) + 1)
            /\ (pc[c] # "popped" /\ pc'[c] = "popped")
                  => /\ job_queue # << >>
                     /\ ret'[c] = Head(job_queue)
                     /\ job_queue' = Tail(job_queue)]_vars

C12_Witness ==
    \E c \in Callers :
        /\ pc[c] = "waiting"
        /\ appended = << >>
        /\ stream = "open"
        /\ Count(scheduled, IsGetBlock) = 1
        /\ callbacks = << >>
        /\ Len(written) = 1

\* C13: when one of the three arguments is missing, DAISY_CONTEXT decides: a
\* value with exactly two colons is taken apart at the colons into
\* (sched_addr, sched_port, task_id), in that order; an unset variable or a
\* value with another number of colons makes the constructor raise before
\* _start is scheduled, so that no connect is ever attempted.
IsColon(ch) == ch = ":"
NoColon(str) == Count(str, IsColon) = 0

C13_BootstrapParsing ==
    (ctor_pc # "init" /\ NeedsContext(args)) =>
        IF environ.given /\ Count(environ.val, IsColon) = 2
        THEN /\ ctor_pc # "raised"
             /\ environ.val = sched_addr \o << ":" >> \o sched_port \o << ":" >> \o task_id
             /\ NoColon(sched_addr) /\ NoColon(sched_port) /\ NoColon(task_id)
        ELSE /\ ctor_pc = "raised"
             /\ loop_pc = "idle"
             /\ stream = "None"
             /\ counter = 0
             /\ ~connected /\ ~error_state

C13_Witness ==
    /\ NeedsContext(args)
    /\ environ.given
    /\ Count(environ.val, IsColon) = 2
    /\ sched_port = << >>
    /\ task_id = << "a" >>
    /\ connected

\* C14: no wakeup is lost.  While a caller waits, every entry in the queue
\* has a caller that was woken for it or is testing the queue; under fair
\* scheduling a caller inside acquire_block() returns unless the queue is
\* emptied by other callers; and with a single caller the first received
\* Block is what the call returns, whether the call started before or after
\* the Block arrived.
Rechecking == { c \in Callers : pc[c] \in {"woken", "check"} }

C14_NoLostWakeup ==
    /\ []((\E c \in Callers : pc[c] = "waiting")
            => Len(job_queue) <= Cardinality(Rechecking))
    /\ \A c \in Callers :
        (InCall(c) /\ job_queue # << >>) ~> (pc[c] = "idle" \/ job_queue = << >>)
    /\ \A b \in BlockIds :
        (/\ users = {1}
         /\ InCall(1)
         /\ retLog = << >>
         /\ ReceivedBlocks # << >>
         /\ ReceivedBlocks[1] = Block(b))
            ~> (retLog # << >> /\ retLog[1] = << 1, Block(b) >>)

C14_Witness ==
    \E c, d \in Callers :
        /\ pc[c] = "woken"
        /\ pc[d] = "waiting"
        /\ job_queue # << >>
        /\ loop_pc = "recv"

\* C15: the receive loop is never blocked for good by a caller.  A caller
\* holds the lock only between testing the queue and returning, never while
\* it waits, so with every caller blocked the lock is free or the loop's; and
\* under fair scheduling the loop, once it wants the lock, gets it, appends
\* and is back reading the next message or has finished.
C15_LoopNotBlocked ==
    /\ [](\A c \in Callers : pc[c] = "waiting" => lock # CallerThread(c))
    /\ [](\A c \in Callers : lock = CallerThread(c) <=> pc[c] \in {"check", "popped"})
    /\ []((\A c \in users : pc[c] = "waiting") => lock \in {Free, LoopThread})
    /\ (loop_pc = "nb_lock") ~> (loop_pc = "recv")
    /\ (loop_pc = "stop_lock") ~> (loop_pc = "done")

C15_Witness ==
    /\ users = Callers
    /\ \A c \in Callers : pc[c] = "waiting"
    /\ loop_pc = "nb_append"
    /\ lock = LoopThread
    /\ inbound # << >>

\* C16: the queue is only touched under the lock.  The loop is inside one of
\* its two append sections exactly when it owns the lock, a caller between
\* the emptiness test and its return owns it, so at most one thread is
\* inside a section; every step that changes the queue is taken by the
\* owner of the lock (an append by the loop, a popleft by a caller that has
\* just tested the queue), and popleft only happens on a non-empty queue.
InSection ==
    { CallerThread(c) : c \in { x \in Callers : pc[x] \in {"check", "popped"} } }
        \cup (IF loop_pc \in {"nb_append", "stop_append"} THEN {LoopThread} ELSE {})

C16_MutationsUnderLock ==
    /\ [](InSection = IF lock = Free THEN {} ELSE {lock})
    /\ [](Cardinality(InSection) <= 1)
    /\ [][job_queue' # job_queue =>
            \/ /\ lock = LoopThread
               /\ loop_pc \in {"nb_append", "stop_append"}
               /\ Len(job_queue') = Len(job_queue) + 1
            \/ \E c \in Callers :
               /\ lock = CallerThread(c)
               /\ pc[c] = "check"
               /\ pc'[c] = "popped"
               /\ job_queue # << >>
               /\ job_queue' = Tail(job_queue)]_vars
    /\ [][\A c \in Callers :
            (pc[c] = "check" /\ pc'[c] # "check") =>
                /\ lock = CallerThread(c)
                /\ (pc'[c] = "popped") <=> (job_queue # << >>)
                /\ (pc'[c] = "waiting") <=> (job_queue = << >>)]_vars

C16_Witness ==
    /\ lock = LoopThread
    /\ loop_pc = "nb_append"
    /\ job_queue # << >>
    /\ \E c, d \in Callers : pc[c] = "acq_lock" /\ pc[d] = "woken"

\* C17: shutdown unblocks the caller side exactly once.  Over all callers at
\* most one acquire_block() call gets the sentinel, a sentinel once returned
\* stays the only one, and under fair scheduling a caller blocked when the
\* loop makes its final append, or inside a call with nothing popped yet
\* when the sentinel heads the queue of the stopped loop, leads to exactly
\* one call having returned it.
SentinelsReturned == Count(ReturnedValues, IsNone)

C17_SentinelReturnedOnce ==
    /\ [](SentinelsReturned + Held(None) <= 1)
    /\ [][SentinelsReturned' >= SentinelsReturned]_vars
    /\ (loop_pc = "stop_append" /\ \E c \in Callers : pc[c] = "waiting")
            ~> (SentinelsReturned = 1)
    /\ (/\ loop_pc = "done"
        /\ job_queue # << >>
        /\ Head(job_queue) = None
        /\ \E c \in Callers : InCall(c) /\ pc[c] # "popped")
            ~> (SentinelsReturned = 1)

C17_Witness ==
    /\ SentinelsReturned = 1
    /\ loop_pc = "done"
    /\ job_queue = << >>
    /\ \E c \in Callers : pc[c] = "waiting"
    /\ Len(retLog) = 1

\* C18: whenever connected is true the deque and its Condition exist and
\* the stream is set, and none of them is taken back; the constructor
\* returns only after seeing connected, so every acquire_block() or
\* release_block() runs on an initialised queue, however _start and the
\* polling constructor interleave.
C18_ConnectedImpliesQueue ==
    /\ [](connected => (queue_made /\ cv_made /\ stream # "None"))
    /\ [](ctor_pc = "returned" => connected)
    /\ []((ncalls > 0 \/ \E c \in Callers : InCall(c))
            => (ctor_pc = "returned" /\ queue_made /\ cv_made))
    /\ [][connected => (connected' /\ queue_made' /\ cv_made' /\ stream' # "None")]_vars

C18_Witness ==
    /\ connected
    /\ ctor_pc = "sleep"
    /\ loop_pc = "nb_append"
    /\ queue_made /\ cv_made

\* C19: while the loop is reading, a message whose type is neither NEW_BLOCK
\* nor TERMINATE_WORKER is consumed and nothing else happens: the queue,
\* connected, error_state, the lock and every caller stay as they were,
\* nothing is sent, and the loop is back reading the next message.
Handled == {NEW_BLOCK, TERMINATE_WORKER}

C19_UnknownTypeIsNoOp ==
    [][(recvd' # recvd /\ recvd'[Len(recvd')].type \notin Handled) =>
            /\ loop_pc = "recv"
            /\ loop_pc' = "recv"
            /\ inbound' = Tail(inbound)
            /\ UNCHANGED << job_queue, appended, popLog, lock, connected,
                            error_state, scheduled, callbacks, written, dropped,
                            pc, ret, retLog, exit_path, stream, cur >>]_vars

C19_Witness ==
    /\ Len(recvd) = 2
    /\ recvd[1].type = WORKER_GET_BLOCK
    /\ recvd[2].type = WORKER_RET_BLOCK
    /\ loop_pc = "recv"
    /\ pc[1] = "waiting"
    /\ job_queue = << >>
    /\ stream = "open"

\* C20: sends are fire-and-forget.  Every scheduled send is pending, written
\* or dropped, and it is dropped only on a stream that is no longer open; the
\* step that drops it changes nothing but the list of pending callbacks: not
\* the queue, the flags, the lock, the loop or any caller, and it appends no
\* sentinel.  What callers pop is still the appended entries in order, and a
\* single user thread inside acquire_block() on a closed stream, the
\* sentinel not yet handed out, still returns.
C20_SendsFireAndForget ==
    /\ [](Len(written) + dropped + Len(callbacks) = Len(scheduled))
    /\ [](dropped > 0 => stream # "open")
    /\ [][dropped' # dropped =>
            /\ dropped' = dropped + 1
            /\ stream # "open"
            /\ callbacks' = Tail(callbacks)
            /\ UNCHANGED << job_queue, appended, popLog, lock, connected,
                            error_state, loop_pc, exit_path, pc, ret, retLog,
                            relLog, ctor_pc, written, scheduled, stream >>]_vars
    /\ [](IsPrefix(popLog, appended))
    /\ (/\ users = {1}
        /\ stream = "closed"
        /\ pc[1] \in {"acq_lock", "check", "waiting", "woken"}
        /\ SentinelsReturned + Held(None) = 0)
            ~> (pc[1] = "idle")

C20_Witness ==
    /\ dropped = 2
    /\ written = << >>
    /\ Len(retLog) = 2
    /\ IsBlock(retLog[1][2])
    /\ retLog[2][2] = None

====
